---- MODULE Spec2Model ----
(***************************************************************************)
(* Authentication and session management of the expense tracker:          *)
(* src/src/services/authService.ts over its SQLite store (tables users    *)
(* and sessions), the clock the service reads, and the results its entry  *)
(* points return.                                                          *)
(***************************************************************************)
EXTENDS Integers, Sequences, FiniteSets, TLC

VARIABLES
    users,      \* rows of table users
    sessions,   \* rows of table sessions
    tokenSeq,   \* number of tokens generateSessionToken has produced so far
    now,        \* the clock: Date.now() and SQLite's 'now', in ticks
    ret,        \* the last call: its name, arguments and returned value
    loggedOut,  \* tokens for which logoutUser has returned success:true
    procs,      \* registerUser calls in flight in concurrent server processes
    responses,  \* the Response objects alive in the server process
    hashes,     \* the calls of hashPassword so far: password and hash returned
    uuid,       \* Bun's UUIDv7 generator: last timestamp and counter
    tokenLog,   \* the texts generateSessionToken has returned, in order
    expenses    \* the expense records of the expense store

vars == <<users, sessions, tokenSeq, now, ret, loggedOut, procs, responses,
          hashes, uuid, tokenLog, expenses>>

----------------------------------------------------------------------------
(* Bounds of the model *)

\* tokens the generator may hand out in one run
MaxTokens == 2
\* Response objects alive at once
MaxResponses == 4
\* clock resolution: ticks per UTC day
TicksPerDay == 2

(* Program constants *)

\* authService.ts:91  password.length < 6
MinPasswordLength == 6
\* authService.ts:158  7 * 24 * 60 * 60 * 1000 ms
SessionDays == 7

SessionTicks == SessionDays * TicksPerDay

\* The instants at which calls are made: the start of day 0; the instant a
\* session created then expires; the last tick of that day; the day after.
Instants == {0, SessionTicks, SessionTicks + TicksPerDay - 1, SessionTicks + TicksPerDay}

(* Inputs *)
Usernames == {"", "alice", "bob"}
Emails    == {"", "alice@example.com", "bob@example.com"}
Passwords == {"", "12345", "123456", "secret1"}
Salts     == {"saltA", "saltB"}

\* well-formed inputs
ValidUsernames == Usernames \ {""}
ValidEmails    == Emails \ {""}

\* a storage error other than a constraint violation (bun:sqlite throws an
\* Error whose message is SQLite's), as the words of error.message
StorageError == <<"database", "is", "locked">>

----------------------------------------------------------------------------
(* Text: timestamps are strings, compared by SQLite byte by byte *)

CharSpace == 32
CharDot   == 46
CharZero  == 48
CharT     == 84
CharZ     == 90

Digit(d) == CharZero + d
Pad2(n) == <<Digit(n \div 10), Digit(n % 10)>>

\* the calendar date of an instant, fixed width (stands for YYYY-MM-DD)
DateChars(t) == Pad2(t \div TicksPerDay)
\* the time of day of an instant, fixed width (stands for HH:MM:SS)
TimeChars(t) == Pad2(t % TicksPerDay)

\* Date.prototype.toISOString: YYYY-MM-DDTHH:MM:SS.sssZ
toISOString(t) == DateChars(t) \o <<CharT>> \o TimeChars(t) \o <<CharDot, CharZero, CharZ>>

\* SQLite datetime('now') and CURRENT_TIMESTAMP: YYYY-MM-DD HH:MM:SS
sqliteDatetime(t) == DateChars(t) \o <<CharSpace>> \o TimeChars(t)

\* SQLite's BINARY collation on TEXT: memcmp, then the longer string is greater
RECURSIVE BinaryGreater(_, _)
BinaryGreater(a, b) ==
    IF a = <<>> THEN FALSE
    ELSE IF b = <<>> THEN TRUE
    ELSE IF Head(a) # Head(b) THEN Head(a) > Head(b)
    ELSE BinaryGreater(Tail(a), Tail(b))

\* new Date(isoString).getTime(): the instant an ISO string denotes
parseISO(s) ==
    ((s[1] - CharZero) * 10 + (s[2] - CharZero)) * TicksPerDay
        + ((s[4] - CharZero) * 10 + (s[5] - CharZero))

----------------------------------------------------------------------------
(* Messages, as sequences of words *)

MsgRequired      == <<"Username,", "email,", "and", "password", "are", "required">>
MsgPasswordShort == <<"Password", "must", "be", "at", "least", "6", "characters", "long">>
MsgEmailTaken    == <<"Email", "already", "registered">>
MsgRegistered    == <<"User", "registered", "successfully">>
MsgRegFailed     == <<"Registration", "failed:">>
MsgInvalidLogin  == <<"Invalid", "email", "or", "password">>
MsgAuthenticated == <<"Authentication", "successful">>
MsgAuthFailed    == <<"Authentication", "failed:">>

ErrUniqueEmail    == <<"UNIQUE", "constraint", "failed:", "users.email">>
ErrUniqueUsername == <<"UNIQUE", "constraint", "failed:", "users.username">>
ErrUniqueToken    == <<"UNIQUE", "constraint", "failed:", "sessions.session_token">>

\* String.prototype.toLowerCase on one word
toLowerCase(w) ==
    CASE w = "Password"  -> "password"
      [] w = "Username," -> "username,"
      [] w = "Email"     -> "email"
      [] w = "Invalid"   -> "invalid"
      [] w = "User"      -> "user"
      [] w = "Registration"   -> "registration"
      [] w = "Authentication" -> "authentication"
      [] w = "UNIQUE"    -> "unique"
      [] OTHER -> w

ContainsWord(msg, w) == \E i \in 1..Len(msg) : toLowerCase(msg[i]) = w
StartsWith(msg, prefix) ==
    /\ Len(msg) >= Len(prefix)
    /\ SubSeq(msg, 1, Len(prefix)) = prefix

----------------------------------------------------------------------------
(* Password hasher and token generator *)

\* the message of the error Bun.password raises for an empty password
ErrEmptyPassword == <<"password", "must", "not", "be", "empty">>

\* (mutant: the same salt in every call)
hashSync_FixedSalt(password, salt) ==
    IF password = ""
    THEN [threw |-> TRUE, error |-> ErrEmptyPassword]
    ELSE [threw |-> FALSE,
          value |-> [salt |-> "salt0", digest |-> <<"salt0", password>>]]

\* Bun.password.hashSync(password, bcrypt): a fresh random salt per call and
\* a one-way digest of salt and password; an empty password is refused
hashSync(password, salt) ==
    IF password = ""
    THEN [threw |-> TRUE, error |-> ErrEmptyPassword]
    ELSE [threw |-> FALSE,
          value |-> [salt |-> salt, digest |-> <<salt, password>>]]

\* hashPassword has no try block: it returns what hashSync returns, and what
\* hashSync throws escapes it
hashPassword(password, salt) == hashSync(password, salt).value

\* Bun.password.verifySync: recompute the digest with the hash's salt; an
\* empty password or a string that is not a hash is refused
verifySync(password, hash) ==
    IF password = "" \/ DOMAIN hash # {"salt", "digest"}
    THEN [threw |-> TRUE, value |-> FALSE]
    ELSE [threw |-> FALSE, value |-> hash.digest = <<hash.salt, password>>]

\* verifyPassword: the catch block turns any error into false
verifyPassword(password, hash) ==
    IF verifySync(password, hash).threw THEN FALSE ELSE verifySync(password, hash).value

\* (mutant: every call returns the same token)
generateSessionToken_Reused(seq) == "tok1"

\* hex(UUIDv7 ++ Date.now()): successive calls never return the same token;
\* a token is identified by its place in the sequence of generated tokens
generateSessionToken(seq) == "tok" \o ToString(seq + 1)

\* tokens a caller can present: the tokens issued so far (an unissued token
\* cannot be guessed), the empty string, and a made-up one
IssuedTokens == {generateSessionToken(k) : k \in 0..(tokenSeq - 1)}
TokenInputs  == IssuedTokens \cup {"", "invalid_token"}

----------------------------------------------------------------------------
(* The store: SQLite tables users and sessions *)

\* SELECT id FROM users WHERE email = ?
SelectUserByEmail(U, email) == {u \in U : u.email = email}

\* INSERT INTO users (username, email, password_hash): id AUTOINCREMENT,
\* username UNIQUE, email UNIQUE, created_at DEFAULT CURRENT_TIMESTAMP
\* (mutants: a users table without UNIQUE on username, or on email)
UniqueViolation_NoUsername(U, username, email) ==
    IF \E u \in U : u.email = email THEN ErrUniqueEmail ELSE <<>>
UniqueViolation_NoEmail(U, username, email) ==
    IF \E u \in U : u.username = username THEN ErrUniqueUsername ELSE <<>>

\* the constraint an insert violates (<<>>: none), in the order the table
\* declares them
UniqueViolation(U, username, email) ==
    IF \E u \in U : u.username = username THEN ErrUniqueUsername
    ELSE IF \E u \in U : u.email = email THEN ErrUniqueEmail
    ELSE <<>>

\* (mutant: the id of the newest user is given out again)
NewUserRow_ReusedId(U, username, email, passwordHash, t) ==
    [id |-> IF U = {} THEN 1 ELSE Cardinality(U), username |-> username,
     email |-> email, password_hash |-> passwordHash, created_at |-> sqliteDatetime(t)]

NewUserRow(U, username, email, passwordHash, t) ==
    [id |-> Cardinality(U) + 1, username |-> username, email |-> email,
     password_hash |-> passwordHash, created_at |-> sqliteDatetime(t)]

\* (mutant: INSERT OR REPLACE INTO sessions)
InsertSession_Replace(S, userId, token, expiresAt) ==
    [error |-> <<>>,
     sessions |-> {s \in S : s.session_token # token}
                  \cup {[user_id |-> userId, session_token |-> token,
                          expires_at |-> expiresAt]}]

\* (mutant: a login also extends the user's other sessions)
InsertSession_Refreshing(S, userId, token, expiresAt) ==
    IF \E s \in S : s.session_token = token
    THEN [error |-> ErrUniqueToken, sessions |-> S]
    ELSE [error |-> <<>>,
          sessions |-> {IF s.user_id = userId
                        THEN [s EXCEPT !.expires_at = expiresAt] ELSE s : s \in S}
                       \cup {[user_id |-> userId, session_token |-> token,
                               expires_at |-> expiresAt]}]

\* INSERT INTO sessions (user_id, session_token, expires_at): token UNIQUE
InsertSession(S, userId, token, expiresAt) ==
    IF \E s \in S : s.session_token = token
    THEN [error |-> ErrUniqueToken, sessions |-> S]
    ELSE [error |-> <<>>,
          sessions |-> S \cup {[user_id |-> userId, session_token |-> token,
                                expires_at |-> expiresAt]}]

\* (mutant: the comparison the wrong way round)
SelectValidSession_Reversed(S, token, t) ==
    {s \in S : s.session_token = token
               /\ BinaryGreater(sqliteDatetime(t), s.expires_at)}

\* SELECT user_id, expires_at FROM sessions
\*   WHERE session_token = ? AND expires_at > datetime('now')
SelectValidSession(S, token, t) ==
    {s \in S : s.session_token = token
               /\ BinaryGreater(s.expires_at, sqliteDatetime(t))}

\* (mutant: the statement deletes no row)
DeleteSession_Nothing(S, token) == S

\* (mutant: the statement deletes every session of the token's user)
DeleteSession_AllOfUser(S, token) ==
    {s \in S : \A r \in S : r.session_token = token => r.user_id # s.user_id}

\* (mutant: the statement deletes the sessions of every other token)
DeleteSession_Others(S, token) == {s \in S : s.session_token = token}

\* DELETE FROM sessions WHERE session_token = ?
DeleteSession(S, token) == {s \in S : s.session_token # token}

----------------------------------------------------------------------------
(* The Auth Service.  Each entry point is a function of the store, the     *)
(* clock and its arguments; `fault` numbers the storage call of the entry  *)
(* point that raises a storage error (0: none does).                       *)

NULL == [null |-> TRUE]

\* the outcome of a try block: it returned a value, or it threw an error
Return(U, S, seq, result) ==
    [threw |-> FALSE, error |-> <<>>, fault |-> FALSE,
     users |-> U, sessions |-> S, tokenSeq |-> seq, result |-> result]
Throw(U, S, seq, error, isFault) ==
    [threw |-> TRUE, error |-> error, fault |-> isFault,
     users |-> U, sessions |-> S, tokenSeq |-> seq, result |-> NULL]

\* what an entry point hands to its caller: the value it returns, or the
\* error that escapes it (error: the error its try block threw, if any)
Returned(b, result) ==
    [raised |-> FALSE, fault |-> b.fault, error |-> b.error, users |-> b.users,
     sessions |-> b.sessions, tokenSeq |-> b.tokenSeq, result |-> result]
Escaped(b) ==
    [raised |-> TRUE, fault |-> b.fault, error |-> b.error, users |-> b.users,
     sessions |-> b.sessions, tokenSeq |-> b.tokenSeq, result |-> [error |-> b.error]]

\* (mutant: the password is not checked for presence)
MissingInput_NoPassword(username, email, password) ==
    username = "" \/ email = ""

\* !username || !email || !password: the empty string is falsy
MissingInput(username, email, password) ==
    username = "" \/ email = "" \/ password = ""

\* (mutant: <= for <)
PasswordTooShort_Inclusive(password) == Len(password) <= MinPasswordLength

\* password.length < 6
PasswordTooShort(password) == Len(password) < MinPasswordLength

\* registerUser, the try block: validation, then SELECT, INSERT, SELECT
registerBody(U, S, seq, t, username, email, password, salt, fault) ==
    IF MissingInput(username, email, password)
    THEN Return(U, S, seq, [success |-> FALSE, message |-> MsgRequired])
    ELSE IF PasswordTooShort(password)
    THEN Return(U, S, seq, [success |-> FALSE, message |-> MsgPasswordShort])
    ELSE IF fault = 1
    THEN Throw(U, S, seq, StorageError, TRUE)
    ELSE IF SelectUserByEmail(U, email) # {}
    THEN Return(U, S, seq, [success |-> FALSE, message |-> MsgEmailTaken])
    ELSE IF fault = 2
    THEN Throw(U, S, seq, StorageError, TRUE)
    ELSE IF UniqueViolation(U, username, email) # <<>>
    THEN Throw(U, S, seq, UniqueViolation(U, username, email), FALSE)
    ELSE LET inserted == U \cup {NewUserRow(U, username, email,
                                            hashPassword(password, salt), t)}
         IN  IF fault = 3
             THEN Throw(inserted, S, seq, StorageError, TRUE)
             ELSE LET user == CHOOSE u \in SelectUserByEmail(inserted, email) : TRUE
                  IN  Return(inserted, S, seq,
                             [success |-> TRUE, message |-> MsgRegistered,
                              userId |-> user.id])

\* (mutant: no catch block)
registerUser_NoCatch(U, S, seq, t, username, email, password, salt, fault) ==
    LET b == registerBody(U, S, seq, t, username, email, password, salt, fault)
    IN  IF b.threw THEN Escaped(b) ELSE Returned(b, b.result)

\* registerUser: the catch block turns any error into a failure result
registerUser(U, S, seq, t, username, email, password, salt, fault) ==
    LET b == registerBody(U, S, seq, t, username, email, password, salt, fault)
    IN  IF b.threw
        THEN Returned(b, [success |-> FALSE, message |-> MsgRegFailed \o b.error])
        ELSE Returned(b, b.result)

\* (mutant: a message of its own for an unknown email)
NoSuchUserResult_Leaky == [success |-> FALSE, message |-> <<"User", "not", "found">>]

\* what authenticateUser returns when no user has the email, and when the
\* password does not match the stored hash
NoSuchUserResult    == [success |-> FALSE, message |-> MsgInvalidLogin]
WrongPasswordResult == [success |-> FALSE, message |-> MsgInvalidLogin]

\* authenticateUser, the try block: SELECT, verify, generate, INSERT
authenticateBody(U, S, seq, t, email, password, fault) ==
    IF fault = 1
    THEN Throw(U, S, seq, StorageError, TRUE)
    ELSE IF SelectUserByEmail(U, email) = {}
    THEN Return(U, S, seq, NoSuchUserResult)
    ELSE LET user == CHOOSE u \in SelectUserByEmail(U, email) : TRUE
         IN  IF ~verifyPassword(password, user.password_hash)
             THEN Return(U, S, seq, WrongPasswordResult)
             ELSE LET sessionToken == generateSessionToken(seq)
                      expiresAt == t + SessionTicks
                      ins == InsertSession(S, user.id, sessionToken,
                                           toISOString(expiresAt))
                  IN  IF fault = 2
                      THEN Throw(U, S, seq + 1, StorageError, TRUE)
                      ELSE IF ins.error # <<>>
                      THEN Throw(U, S, seq + 1, ins.error, FALSE)
                      ELSE Return(U, ins.sessions, seq + 1,
                                  [success |-> TRUE, message |-> MsgAuthenticated,
                                   sessionToken |-> sessionToken, userId |-> user.id])

\* authenticateUser: the catch block turns any error into a failure result
authenticateUser(U, S, seq, t, email, password, fault) ==
    LET b == authenticateBody(U, S, seq, t, email, password, fault)
    IN  IF b.threw
        THEN Returned(b, [success |-> FALSE, message |-> MsgAuthFailed \o b.error])
        ELSE Returned(b, b.result)

\* (mutant: a lookup that finds the token expired deletes its row)
verifySessionBody_Purging(U, S, seq, t, sessionToken, fault) ==
    IF fault = 1
    THEN Throw(U, S, seq, StorageError, TRUE)
    ELSE IF SelectValidSession(S, sessionToken, t) = {}
    THEN Return(U, DeleteSession(S, sessionToken), seq, [valid |-> FALSE])
    ELSE LET session == CHOOSE s \in SelectValidSession(S, sessionToken, t) : TRUE
         IN  Return(U, S, seq, [valid |-> TRUE, userId |-> session.user_id])

\* verifySession
verifySessionBody(U, S, seq, t, sessionToken, fault) ==
    IF fault = 1
    THEN Throw(U, S, seq, StorageError, TRUE)
    ELSE IF SelectValidSession(S, sessionToken, t) = {}
    THEN Return(U, S, seq, [valid |-> FALSE])
    ELSE LET session == CHOOSE s \in SelectValidSession(S, sessionToken, t) : TRUE
         IN  Return(U, S, seq, [valid |-> TRUE, userId |-> session.user_id])

verifySession(U, S, seq, t, sessionToken, fault) ==
    LET b == verifySessionBody(U, S, seq, t, sessionToken, fault)
    IN  IF b.threw THEN Returned(b, [valid |-> FALSE]) ELSE Returned(b, b.result)

\* (mutant: SELECT * FROM users WHERE id = ?)
getUserByIdBody_SelectStar(U, S, seq, userId, fault) ==
    IF fault = 1
    THEN Throw(U, S, seq, StorageError, TRUE)
    ELSE IF {u \in U : u.id = userId} = {}
    THEN Return(U, S, seq, NULL)
    ELSE Return(U, S, seq, CHOOSE r \in U : r.id = userId)

\* getUserById: SELECT id, username, email, created_at FROM users WHERE id = ?
getUserByIdBody(U, S, seq, userId, fault) ==
    IF fault = 1
    THEN Throw(U, S, seq, StorageError, TRUE)
    ELSE IF {u \in U : u.id = userId} = {}
    THEN Return(U, S, seq, NULL)
    ELSE LET u == CHOOSE r \in U : r.id = userId
         IN  Return(U, S, seq, [id |-> u.id, username |-> u.username,
                                email |-> u.email, created_at |-> u.created_at])

getUserById(U, S, seq, userId, fault) ==
    LET b == getUserByIdBody(U, S, seq, userId, fault)
    IN  IF b.threw THEN Returned(b, NULL) ELSE Returned(b, b.result)

\* logoutUser
logoutBody(U, S, seq, sessionToken, fault) ==
    IF fault = 1
    THEN Throw(U, S, seq, StorageError, TRUE)
    ELSE Return(U, DeleteSession(S, sessionToken), seq, [success |-> TRUE])

\* (mutant: success only when a row was deleted)
logoutUser_FailsWhenAbsent(U, S, seq, sessionToken, fault) ==
    LET b == logoutBody(U, S, seq, sessionToken, fault)
    IN  IF b.threw \/ b.sessions = S
        THEN Returned(b, [success |-> FALSE])
        ELSE Returned(b, b.result)

logoutUser(U, S, seq, sessionToken, fault) ==
    LET b == logoutBody(U, S, seq, sessionToken, fault)
    IN  IF b.threw THEN Returned(b, [success |-> FALSE]) ELSE Returned(b, b.result)

----------------------------------------------------------------------------
(* Calls to the service *)

IdleProcs == [p \in {1, 2} |-> [pc |-> "idle"]]

Init ==
    /\ users = {}
    /\ sessions = {}
    /\ tokenSeq = 0
    /\ now = 0
    /\ ret = [op |-> "init"]
    /\ loggedOut = {}
    /\ procs = IdleProcs
    /\ responses = <<>>
    /\ hashes = <<>>
    /\ uuid = [timestamp |-> 0, counter |-> 0]
    /\ tokenLog = <<>>
    /\ expenses = {}

\* the store and the record of the call, after an entry point has answered
Answer(op, args, out) ==
    /\ out.tokenSeq <= MaxTokens
    /\ users' = out.users
    /\ sessions' = out.sessions
    /\ tokenSeq' = out.tokenSeq
    /\ ret' = [op |-> op, args |-> args, result |-> out.result,
               raised |-> out.raised, fault |-> out.fault, error |-> out.error]

\* the salts, faults and arguments of a call are drawn from the sets given
CallRegisterUser(Us, Es, Ps, Ss, Fs) ==
    \E username \in Us, email \in Es, password \in Ps, salt \in Ss, fault \in Fs :
        /\ Answer("registerUser",
                  [username |-> username, email |-> email, password |-> password],
                  registerUser(users, sessions, tokenSeq, now,
                               username, email, password, salt, fault))
        /\ UNCHANGED <<now, loggedOut, procs, responses,
                      hashes, uuid, tokenLog, expenses>>

CallAuthenticateUser(Es, Ps, Fs) ==
    \E email \in Es, password \in Ps, fault \in Fs :
        /\ Answer("authenticateUser", [email |-> email, password |-> password],
                  authenticateUser(users, sessions, tokenSeq, now,
                                   email, password, fault))
        /\ UNCHANGED <<now, loggedOut, procs, responses,
                      hashes, uuid, tokenLog, expenses>>

CallVerifySession(Ts, Fs) ==
    \E sessionToken \in Ts, fault \in Fs :
        /\ Answer("verifySession", [sessionToken |-> sessionToken],
                  verifySession(users, sessions, tokenSeq, now, sessionToken, fault))
        /\ UNCHANGED <<now, loggedOut, procs, responses,
                      hashes, uuid, tokenLog, expenses>>

CallGetUserById(Fs) ==
    \E userId \in (-1)..(Cardinality(users) + 1), fault \in Fs :
        /\ Answer("getUserById", [userId |-> userId],
                  getUserById(users, sessions, tokenSeq, userId, fault))
        /\ UNCHANGED <<now, loggedOut, procs, responses,
                      hashes, uuid, tokenLog, expenses>>

CallLogoutUser(Ts, Fs) ==
    \E sessionToken \in Ts, fault \in Fs :
        LET out == logoutUser(users, sessions, tokenSeq, sessionToken, fault)
        IN  /\ Answer("logoutUser", [sessionToken |-> sessionToken], out)
            /\ loggedOut' = IF out.result.success
                            THEN loggedOut \cup {sessionToken}
                            ELSE loggedOut
            /\ UNCHANGED <<now, procs, responses,
                      hashes, uuid, tokenLog, expenses>>

\* time passes between calls
Tick ==
    /\ \E t \in Instants : t > now /\ now' = t
    /\ ret' = [op |-> "tick"]
    /\ UNCHANGED <<users, sessions, tokenSeq, loggedOut, procs, responses,
                      hashes, uuid, tokenLog, expenses>>

\* Normal operation: well-formed registrations, logins with the right and
\* with a wrong password, session checks, logouts, and the passing of time;
\* no storage call raises.
Next ==
    \/ CallRegisterUser(ValidUsernames, ValidEmails, {"123456"}, {"saltA"}, {0})
    \/ CallAuthenticateUser(ValidEmails, {"12345", "123456"}, {0})
    \/ CallVerifySession(TokenInputs, {0})
    \/ CallGetUserById({0})
    \/ CallLogoutUser(IssuedTokens \cup {""}, {0})
    \/ Tick

Spec == Init /\ [][Next]_vars

\* Registration with every combination of inputs, at one instant.
NextRegister ==
    \/ CallRegisterUser(Usernames, Emails, Passwords, Salts, {0})
    \/ CallGetUserById({0})

SpecRegister == Init /\ [][NextRegister]_vars

\* Every entry point, with storage calls that may raise, at one instant.
NextFault ==
    \/ CallRegisterUser({"alice"}, Emails, {"12345", "123456"}, {"saltA"}, 0..3)
    \/ CallAuthenticateUser(Emails, {"12345", "123456"}, 0..2)
    \/ CallVerifySession(TokenInputs, 0..1)
    \/ CallGetUserById(0..1)
    \/ CallLogoutUser(TokenInputs, 0..1)

SpecFault == Init /\ [][NextFault]_vars

\* authenticateUser when the generator is not assumed collision-free: the
\* token it returns is a new one or any token it returned before
CallAuthenticateUserAnyToken(Es, Ps) ==
    \E email \in Es, password \in Ps, k \in 0..tokenSeq :
        LET out == authenticateUser(users, sessions, k, now, email, password, 0)
            generated == out.tokenSeq > k
        IN  /\ (k = tokenSeq) => out.tokenSeq <= MaxTokens
            /\ users' = out.users
            /\ sessions' = out.sessions
            /\ tokenSeq' = IF k = tokenSeq THEN out.tokenSeq ELSE tokenSeq
            /\ ret' = [op |-> "authenticateUser",
                       args |-> [email |-> email, password |-> password],
                       result |-> out.result, raised |-> out.raised,
                       fault |-> out.fault, error |-> out.error,
                       generated |-> IF generated
                                     THEN {generateSessionToken(k)} ELSE {}]
            /\ UNCHANGED <<now, loggedOut, procs, responses,
                      hashes, uuid, tokenLog, expenses>>

\* The service where generateSessionToken may return a token again, at one
\* instant.
NextCollide ==
    \/ CallRegisterUser(ValidUsernames, ValidEmails, {"123456"}, {"saltA"}, {0})
    \/ CallAuthenticateUserAnyToken(ValidEmails, {"12345", "123456"})
    \/ CallVerifySession(TokenInputs, {0})
    \/ CallLogoutUser(IssuedTokens, {0})

SpecCollide == Init /\ [][NextCollide]_vars

----------------------------------------------------------------------------
(* registerUser in two server processes that share the database file: each *)
(* process runs the function from storage call to storage call, and the    *)
(* calls of the two processes interleave.                                  *)

Procs == {1, 2}

\* validation and SELECT id FROM users WHERE email = ? (lines 84-104)
RaceCheck(p) ==
    /\ procs[p].pc = "idle"
    /\ \E username \in ValidUsernames, email \in ValidEmails,
          password \in {"123456"}, salt \in {"saltA"} :
          LET call == [username |-> username, email |-> email,
                       password |-> password, salt |-> salt]
              answered(result) == [pc |-> "done", call |-> call, sawFree |-> FALSE,
                                   raised |-> FALSE, result |-> result]
          IN  procs' = [procs EXCEPT ![p] =
                  IF MissingInput(username, email, password)
                  THEN answered([success |-> FALSE, message |-> MsgRequired])
                  ELSE IF PasswordTooShort(password)
                  THEN answered([success |-> FALSE, message |-> MsgPasswordShort])
                  ELSE IF SelectUserByEmail(users, email) # {}
                  THEN answered([success |-> FALSE, message |-> MsgEmailTaken])
                  ELSE [pc |-> "checked", call |-> call, sawFree |-> TRUE]]
    /\ UNCHANGED <<users, sessions, tokenSeq, now, ret, loggedOut, responses,
                      hashes, uuid, tokenLog, expenses>>

\* hashPassword and INSERT INTO users (lines 106-110); a constraint
\* violation is thrown and caught (lines 122-128)
RaceInsert(p) ==
    /\ procs[p].pc = "checked"
    /\ LET c == procs[p].call
           e == UniqueViolation(users, c.username, c.email)
       IN  IF e # <<>>
           THEN /\ procs' = [procs EXCEPT ![p] =
                       [pc |-> "done", call |-> c, sawFree |-> TRUE, raised |-> FALSE,
                        result |-> [success |-> FALSE, message |-> MsgRegFailed \o e]]]
                /\ users' = users
           ELSE /\ procs' = [procs EXCEPT ![p].pc = "inserted"]
                /\ users' = users \cup {NewUserRow(users, c.username, c.email,
                                           hashPassword(c.password, c.salt), now)}
    /\ UNCHANGED <<sessions, tokenSeq, now, ret, loggedOut, responses,
                      hashes, uuid, tokenLog, expenses>>

\* SELECT id FROM users WHERE email = ? and the success result (lines 113-121)
RaceFetch(p) ==
    /\ procs[p].pc = "inserted"
    /\ LET c == procs[p].call
           user == CHOOSE u \in SelectUserByEmail(users, c.email) : TRUE
       IN  procs' = [procs EXCEPT ![p] =
               [pc |-> "done", call |-> c, sawFree |-> TRUE, raised |-> FALSE,
                result |-> [success |-> TRUE, message |-> MsgRegistered,
                            userId |-> user.id]]]
    /\ UNCHANGED <<users, sessions, tokenSeq, now, ret, loggedOut, responses,
                      hashes, uuid, tokenLog, expenses>>

\* the process has answered its request and waits for the next one
RaceReturn(p) ==
    /\ procs[p].pc = "done"
    /\ procs' = [procs EXCEPT ![p] = [pc |-> "idle"]]
    /\ UNCHANGED <<users, sessions, tokenSeq, now, ret, loggedOut, responses,
                      hashes, uuid, tokenLog, expenses>>

NextRace ==
    \E p \in Procs : RaceCheck(p) \/ RaceInsert(p) \/ RaceFetch(p) \/ RaceReturn(p)

SpecRace == Init /\ [][NextRace]_vars

----------------------------------------------------------------------------
(* Cookies: src/src/services/cookieMiddleware.ts.  A header value is a     *)
(* sequence of lexemes: the separators ";", "=" and " " one by one, and    *)
(* every run of other characters (a name, a value) as one string.  Cookie  *)
(* names and values are made of cookie octets (letters, digits, "_", "/"), *)
(* as the tokens of generateSessionToken are.                              *)

\* a JavaScript string where null may stand instead
Str(v) == [value |-> v]

\* String.prototype.split on one separator lexeme
RECURSIVE SplitOn(_, _)
SplitOn(text, sep) ==
    IF \A i \in 1..Len(text) : text[i] # sep
    THEN <<text>>
    ELSE LET k == CHOOSE i \in 1..Len(text) :
                      text[i] = sep /\ \A j \in 1..(i - 1) : text[j] # sep
         IN  <<SubSeq(text, 1, k - 1)>> \o SplitOn(SubSeq(text, k + 1, Len(text)), sep)

\* String.prototype.trim
RECURSIVE Trim(_)
Trim(text) ==
    IF text = <<>> THEN <<>>
    ELSE IF Head(text) = " " THEN Trim(Tail(text))
    ELSE IF text[Len(text)] = " " THEN Trim(SubSeq(text, 1, Len(text) - 1))
    ELSE text

\* the string the lexemes spell
RECURSIVE Join(_)
Join(text) == IF text = <<>> THEN "" ELSE Head(text) \o Join(Tail(text))

\* one name=value pair of a Cookie header: the name before the first "=",
\* the value after it, both trimmed; <<>> for a piece without "="
ParsePair(piece) ==
    IF \A i \in 1..Len(piece) : piece[i] # "="
    THEN <<>>
    ELSE LET k == CHOOSE i \in 1..Len(piece) :
                      piece[i] = "=" /\ \A j \in 1..(i - 1) : piece[j] # "="
         IN  <<[name  |-> Join(Trim(SubSeq(piece, 1, k - 1))),
                value |-> Join(Trim(SubSeq(piece, k + 1, Len(piece))))]>>

RECURSIVE ParsePieces(_)
ParsePieces(pieces) ==
    IF pieces = <<>> THEN <<>>
    ELSE ParsePair(Head(pieces)) \o ParsePieces(Tail(pieces))

\* new Bun.CookieMap(cookieHeader): the name=value pairs between the ";"
CookieMap(cookieHeader) == ParsePieces(SplitOn(cookieHeader, ";"))

\* CookieMap.prototype.get: the value stored under the name, or null
CookieMapGet(cookies, name) ==
    IF \A i \in 1..Len(cookies) : cookies[i].name # name
    THEN NULL
    ELSE LET k == CHOOSE i \in 1..Len(cookies) :
                      cookies[i].name = name /\ \A j \in 1..(i - 1) : cookies[j].name # name
         IN  Str(cookies[k].value)

\* Headers.prototype.get on a list of <<name, value>> entries
HeadersGet(headers, name) ==
    IF \A i \in 1..Len(headers) : headers[i][1] # name
    THEN NULL
    ELSE LET k == CHOOSE i \in 1..Len(headers) :
                      headers[i][1] = name /\ \A j \in 1..(i - 1) : headers[j][1] # name
         IN  Str(headers[k][2])

\* !x for a string-or-null x: null and the empty string are falsy
Falsy(x) == IF x = NULL THEN TRUE ELSE x.value = ""
\* the same for a header value, a string written as its lexemes
FalsyText(x) == IF x = NULL THEN TRUE ELSE x.value = <<>>

\* (mutant: only the first pair of the header is looked at)
getSessionFromCookies_FirstPairOnly(req) ==
    LET cookieHeader == HeadersGet(req.headers, "cookie")
    IN  IF FalsyText(cookieHeader) THEN NULL
        ELSE LET cookies == CookieMap(cookieHeader.value)
                 found == CookieMapGet(SubSeq(cookies, 1, 1), "sessionToken")
             IN  IF Falsy(found) THEN NULL ELSE found

\* getSessionFromCookies: cookies.get("sessionToken") || null
getSessionFromCookies(req) ==
    LET cookieHeader == HeadersGet(req.headers, "cookie")
    IN  IF FalsyText(cookieHeader) THEN NULL
        ELSE LET found == CookieMapGet(CookieMap(cookieHeader.value), "sessionToken")
             IN  IF Falsy(found) THEN NULL ELSE found

(* Responses: objects on the heap of the server process, named by their   *)
(* place in `responses`; headers are a list of <<name, value>> entries.     *)

\* cookieMiddleware.ts:30  expiryDays: number = 7
DefaultExpiryDays == 7
\* cookieMiddleware.ts:37  24 * 60 * 60
SecondsPerDay == 24 * 60 * 60

\* Headers lower-cases the names it is given
HeaderName(name) ==
    CASE name = "Set-Cookie"   -> "set-cookie"
      [] name = "Content-Type" -> "content-type"
      [] name = "Cookie"       -> "cookie"
      [] OTHER -> name

\* (mutant: Headers.prototype.append)
HeadersSet_Append(headers, name, value) ==
    Append(headers, <<HeaderName(name), value>>)

\* Headers.prototype.set: the entries of that name are replaced by one
HeadersSet(headers, name, value) ==
    LET other(e) == e[1] # HeaderName(name)
    IN  Append(SelectSeq(headers, other), <<HeaderName(name), value>>)

\* new Bun.Cookie(name, value, options)
Cookie(name, value, options) ==
    [name |-> name, value |-> value, path |-> options.path,
     httpOnly |-> options.httpOnly, secure |-> options.secure,
     sameSite |-> options.sameSite, maxAge |-> options.maxAge]

\* the attribute value Bun.Cookie writes for sameSite
SameSiteText(sameSite) ==
    CASE sameSite = "strict" -> "Strict"
      [] sameSite = "lax"    -> "Lax"
      [] OTHER               -> "None"

\* Bun.Cookie.prototype.toString:
\*   name=value; Path=/; Max-Age=n; Secure; HttpOnly; SameSite=Strict
CookieToString(cookie) ==
    <<cookie.name, "=">>
    \o (IF cookie.value = "" THEN <<>> ELSE <<cookie.value>>)
    \o <<";", " ", "Path", "=", cookie.path>>
    \o <<";", " ", "Max-Age", "=", ToString(cookie.maxAge)>>
    \o (IF cookie.secure THEN <<";", " ", "Secure">> ELSE <<>>)
    \o (IF cookie.httpOnly THEN <<";", " ", "HttpOnly">> ELSE <<>>)
    \o <<";", " ", "SameSite", "=", SameSiteText(cookie.sameSite)>>

\* new Response(body, init): a new object with init's status and a copy of
\* init's headers
NewResponse(H, body, init) ==
    Append(H, [status |-> init.status, body |-> body, headers |-> init.headers])

\* (mutant: the header is set on the response given, which is returned)
setSessionCookie_InPlace(H, response, sessionToken, expiryDays) ==
    LET cookie == Cookie("sessionToken", sessionToken,
                         [path |-> "/", httpOnly |-> TRUE, secure |-> TRUE,
                          sameSite |-> "strict", maxAge |-> expiryDays * SecondsPerDay])
    IN  [heap |-> [H EXCEPT ![response].headers =
                       HeadersSet(@, "Set-Cookie", CookieToString(cookie))],
         ref  |-> response]

\* setSessionCookie(response, sessionToken, expiryDays)
setSessionCookie(H, response, sessionToken, expiryDays) ==
    LET cookie == Cookie("sessionToken", sessionToken,
                         [path |-> "/", httpOnly |-> TRUE, secure |-> TRUE,
                          sameSite |-> "strict", maxAge |-> expiryDays * SecondsPerDay])
        H1 == NewResponse(H, H[response].body, H[response])
        newResponse == Len(H1)
    IN  [heap |-> [H1 EXCEPT ![newResponse].headers =
                       HeadersSet(@, "Set-Cookie", CookieToString(cookie))],
         ref  |-> newResponse]

\* clearSessionCookie(response)
clearSessionCookie(H, response) ==
    LET cookie == Cookie("sessionToken", "",
                         [path |-> "/", httpOnly |-> TRUE, secure |-> TRUE,
                          sameSite |-> "strict", maxAge |-> 0])
        H1 == NewResponse(H, H[response].body, H[response])
        newResponse == Len(H1)
    IN  [heap |-> [H1 EXCEPT ![newResponse].headers =
                       HeadersSet(@, "Set-Cookie", CookieToString(cookie))],
         ref  |-> newResponse]

\* the responses the cookie functions are given: new Response("OK"), and a
\* response with a status and headers of its own
ResponseInputs ==
    {[status |-> 200, body |-> "OK",
      headers |-> <<<<"content-type", <<"text/plain;charset=utf-8">>>>>>],
     [status |-> 401, body |-> "test",
      headers |-> <<<<"content-type", <<"application/json">>>>,
                    <<"x-custom", <<"header-value">>>>>>]}
CookieTokens     == {"tok123", "abc"}
ExpiryDaysInputs == {1, 30}

\* new Response(...)
CallNewResponse ==
    /\ Len(responses) < MaxResponses
    /\ \E init \in ResponseInputs :
          /\ responses' = NewResponse(responses, init.body, init)
          /\ ret' = [op |-> "Response", result |-> Len(responses) + 1]
    /\ UNCHANGED <<users, sessions, tokenSeq, now, loggedOut, procs,
                      hashes, uuid, tokenLog, expenses>>

CallSetSessionCookie ==
    /\ Len(responses) < MaxResponses
    /\ \E response \in 1..Len(responses), sessionToken \in CookieTokens,
          expiryDays \in ExpiryDaysInputs :
          LET out == setSessionCookie(responses, response, sessionToken, expiryDays)
          IN  /\ responses' = out.heap
              /\ ret' = [op |-> "setSessionCookie",
                         args |-> [response |-> response, sessionToken |-> sessionToken,
                                   expiryDays |-> expiryDays],
                         result |-> out.ref]
    /\ UNCHANGED <<users, sessions, tokenSeq, now, loggedOut, procs,
                      hashes, uuid, tokenLog, expenses>>

\* setSessionCookie(response, sessionToken): expiryDays takes its default
CallSetSessionCookieDefault ==
    /\ Len(responses) < MaxResponses
    /\ \E response \in 1..Len(responses), sessionToken \in CookieTokens :
          LET out == setSessionCookie(responses, response, sessionToken,
                                      DefaultExpiryDays)
          IN  /\ responses' = out.heap
              /\ ret' = [op |-> "setSessionCookie",
                         args |-> [response |-> response, sessionToken |-> sessionToken],
                         result |-> out.ref]
    /\ UNCHANGED <<users, sessions, tokenSeq, now, loggedOut, procs,
                      hashes, uuid, tokenLog, expenses>>

CallClearSessionCookie ==
    /\ Len(responses) < MaxResponses
    /\ \E response \in 1..Len(responses) :
          LET out == clearSessionCookie(responses, response)
          IN  /\ responses' = out.heap
              /\ ret' = [op |-> "clearSessionCookie",
                         args |-> [response |-> response], result |-> out.ref]
    /\ UNCHANGED <<users, sessions, tokenSeq, now, loggedOut, procs,
                      hashes, uuid, tokenLog, expenses>>

\* Responses made, given a session cookie, and cleared of it.
NextCookie ==
    \/ CallNewResponse
    \/ CallSetSessionCookie
    \/ CallSetSessionCookieDefault
    \/ CallClearSessionCookie

SpecCookie == Init /\ [][NextCookie]_vars

(* Requests a browser or a test sends *)

\* the cookies a request may carry besides the session cookie, and the
\* values the session cookie takes in the parsing tests
OtherPairs   == {[name |-> "userId", value |-> "1"], [name |-> "theme", value |-> "dark"]}
SessionPairs == {[name |-> "sessionToken", value |-> v] : v \in {"abc", ""}}

\* lists of at most three cookies with different names
PairLists ==
    {l \in UNION {[1..n -> OtherPairs \cup SessionPairs] : n \in 0..3} :
        \A i, j \in 1..Len(l) : l[i].name = l[j].name => i = j}

\* what stands between two cookies, before the first and after the last
Separators == {<<";", " ">>, <<" ", ";", " ", " ">>, <<";", ";", " ">>}
Leaders    == {<<>>, <<";", ";", ";", " ">>}
Trailers   == {<<>>, <<" ", ";", ";", ";">>}

\* the Cookie header a list of cookies is sent as
RECURSIVE WritePairs(_, _)
WritePairs(l, sep) ==
    IF l = <<>> THEN <<>>
    ELSE <<Head(l).name, "=">>
         \o (IF Head(l).value = "" THEN <<>> ELSE <<Head(l).value>>)
         \o (IF Tail(l) = <<>> THEN <<>> ELSE sep \o WritePairs(Tail(l), sep))

CookieHeader(l, sep, lead, trail) == lead \o WritePairs(l, sep) \o trail

\* new Request(url, {headers: {cookie}}) and new Request(url)
RequestWithCookie(cookieHeader) == [headers |-> <<<<"cookie", cookieHeader>>>>]
RequestWithoutCookie == [headers |-> <<>>]

\* a call of getSessionFromCookies; the cookies the header was written from
\* are kept with the call
CallGetSessionFromCookies ==
    /\ \/ \E l \in PairLists, sep \in Separators, lead \in Leaders, trail \in Trailers :
             LET req == RequestWithCookie(CookieHeader(l, sep, lead, trail))
             IN  ret' = [op |-> "getSessionFromCookies", args |-> [req |-> req],
                         sent |-> l, result |-> getSessionFromCookies(req)]
       \/ ret' = [op |-> "getSessionFromCookies", args |-> [req |-> RequestWithoutCookie],
                  sent |-> <<>>, result |-> getSessionFromCookies(RequestWithoutCookie)]
    /\ UNCHANGED <<users, sessions, tokenSeq, now, loggedOut, procs, responses,
                      hashes, uuid, tokenLog, expenses>>

\* Requests parsed one after the other.
NextParse == CallGetSessionFromCookies

SpecParse == Init /\ [][NextParse]_vars

----------------------------------------------------------------------------
(* The HTTP routes of src/src/index.ts that call the Auth Service, and the  *)
(* wrapper withOptionalAuthentication.  A handler builds its responses on   *)
(* a heap of its own; the response it returns is kept with the call.        *)

\* index.ts:165  setSessionCookie(response, result.sessionToken!, 7)
LoginCookieDays == 7

MsgRegistrationFailed == <<"Registration", "failed">>
MsgLoginFailed        == <<"Login", "failed">>
MsgLoggedOut          == <<"Logged", "out", "successfully">>

\* Response.json(data, {status}), on heap H: the heap with the new response
ResponseJson(H, data, status) ==
    Append(H, [status |-> status, body |-> data,
               headers |-> <<<<"content-type", <<"application/json;charset=utf-8">>>>>>])

\* a request body req.json() rejects
Malformed == [malformed |-> TRUE]

\* const { username = "", email = "", password = "" } = body
Field(body, key) == IF key \in DOMAIN body THEN body[key] ELSE ""

\* what a route leaves behind: the store, the result of the service call it
\* made (if it made one) and the response it returns
Routed(out, called, response) ==
    [users |-> out.users, sessions |-> out.sessions, tokenSeq |-> out.tokenSeq,
     called |-> called, result |-> out.result, fault |-> out.fault,
     error |-> out.error, response |-> response]

\* POST /api/auth/register
registerRoute(U, S, seq, t, body, salt, fault) ==
    IF body = Malformed
    THEN Routed(Returned(Return(U, S, seq, NULL), NULL), FALSE,
                ResponseJson(<<>>, [error |-> MsgRegistrationFailed], 500)[1])
    ELSE LET out == registerUser(U, S, seq, t, Field(body, "username"),
                                 Field(body, "email"), Field(body, "password"),
                                 salt, fault)
             result == out.result
         IN  IF ~result.success
             THEN Routed(out, TRUE,
                         ResponseJson(<<>>, [error |-> result.message], 400)[1])
             ELSE Routed(out, TRUE,
                         ResponseJson(<<>>, [success |-> TRUE, message |-> result.message,
                                             userId |-> result.userId], 201)[1])

\* (mutant: a failed login is answered with a session cookie too)
loginRoute_CookieAnyway(U, S, seq, t, body, fault) ==
    LET out == authenticateUser(U, S, seq, t, Field(body, "email"),
                                Field(body, "password"),
                                IF fault = 3 THEN 0 ELSE fault)
        result == out.result
        H == ResponseJson(<<>>, IF result.success
                                THEN [success |-> TRUE, message |-> result.message]
                                ELSE [error |-> result.message],
                          IF result.success THEN 200 ELSE 401)
        set == setSessionCookie(H, 1, IF result.success THEN result.sessionToken
                                      ELSE "guest", LoginCookieDays)
    IN  Routed(out, TRUE, set.heap[set.ref])

\* POST /api/auth/login; fault 3: the storage raises in getUserById
loginRoute(U, S, seq, t, body, fault) ==
    IF body = Malformed
    THEN Routed(Returned(Return(U, S, seq, NULL), NULL), FALSE,
                ResponseJson(<<>>, [error |-> MsgLoginFailed], 500)[1])
    ELSE LET out == authenticateUser(U, S, seq, t, Field(body, "email"),
                                     Field(body, "password"),
                                     IF fault = 3 THEN 0 ELSE fault)
             result == out.result
         IN  IF ~result.success
             THEN Routed(out, TRUE,
                         ResponseJson(<<>>, [error |-> result.message], 401)[1])
             ELSE LET userInfo == getUserById(out.users, out.sessions, out.tokenSeq,
                                              result.userId,
                                              IF fault = 3 THEN 1 ELSE 0).result
                      H == ResponseJson(<<>>, [success |-> TRUE,
                                               message |-> result.message,
                                               user |-> userInfo,
                                               sessionToken |-> result.sessionToken], 200)
                      set == setSessionCookie(H, 1, result.sessionToken, LoginCookieDays)
                  IN  Routed(out, TRUE, set.heap[set.ref])

\* (mutant: the route clears the cookie and leaves the session row alone)
logoutRoute_CookieOnly(U, S, seq, req, fault) ==
    LET H == ResponseJson(<<>>, [success |-> TRUE, message |-> MsgLoggedOut], 200)
        cleared == clearSessionCookie(H, 1)
    IN  Routed(Returned(Return(U, S, seq, NULL), [success |-> TRUE]),
               ~Falsy(getSessionFromCookies(req)), cleared.heap[cleared.ref])

\* POST /api/auth/logout
logoutRoute(U, S, seq, req, fault) ==
    LET sessionToken == getSessionFromCookies(req)
        H == ResponseJson(<<>>, [success |-> TRUE, message |-> MsgLoggedOut], 200)
        cleared == clearSessionCookie(H, 1)
    IN  IF Falsy(sessionToken)
        THEN Routed(Returned(Return(U, S, seq, NULL), NULL), FALSE,
                    cleared.heap[cleared.ref])
        ELSE Routed(logoutUser(U, S, seq, sessionToken.value, fault), TRUE,
                    cleared.heap[cleared.ref])

\* a route handler wrapped by withOptionalAuthentication: it answers 200 and
\* says whom it was called for; an argument left undefined is a missing key
handler(call) ==
    ResponseJson(<<>>, [seen |-> DOMAIN call], 200)[1]

\* (mutant: a request without a session cookie is answered 401 by the wrapper)
withOptionalAuthentication_Rejecting(U, S, seq, t, req, fault) ==
    LET sessionToken == getSessionFromCookies(req)
    IN  IF Falsy(sessionToken)
        THEN [calls |-> <<>>,
              response |-> ResponseJson(<<>>, [error |-> <<"Unauthorized">>], 401)[1]]
        ELSE LET sessionResult == verifySession(U, S, seq, t, sessionToken.value, fault).result
             IN  IF ~sessionResult.valid
                 THEN [calls |-> <<[req |-> req]>>, response |-> handler([req |-> req])]
                 ELSE LET call == [req |-> req, userId |-> sessionResult.userId,
                                   userInfo |-> getUserById(U, S, seq,
                                                    sessionResult.userId, 0).result]
                      IN  [calls |-> <<call>>, response |-> handler(call)]

\* the function withOptionalAuthentication(handler) returns, applied to a
\* request: the calls it makes to the handler and the response it returns
withOptionalAuthentication(U, S, seq, t, req, fault) ==
    LET sessionToken == getSessionFromCookies(req)
    IN  IF Falsy(sessionToken)
        THEN [calls |-> <<[req |-> req]>>, response |-> handler([req |-> req])]
        ELSE LET sessionResult == verifySession(U, S, seq, t, sessionToken.value, fault).result
             IN  IF ~sessionResult.valid \/ sessionResult.userId = 0
                 THEN [calls |-> <<[req |-> req]>>, response |-> handler([req |-> req])]
                 ELSE LET call == [req |-> req, userId |-> sessionResult.userId,
                                   userInfo |-> getUserById(U, S, seq,
                                                    sessionResult.userId, 0).result]
                      IN  [calls |-> <<call>>, response |-> handler(call)]

(* Requests to the routes *)

RegisterBodies ==
    {[username |-> "alice", email |-> e, password |-> "123456"] : e \in ValidEmails}
    \cup {[email |-> "alice@example.com", password |-> "123456"], Malformed}
LoginBodies ==
    {[email |-> "alice@example.com", password |-> w] : w \in {"12345", "123456"}}
    \cup {[email |-> "bob@example.com", password |-> "123456"], Malformed}

\* the cookies a browser sends along: none, one that is not the session
\* cookie, or the session cookie among others
CookieLists(tokens) ==
    {<<>>, <<[name |-> "theme", value |-> "dark"]>>}
    \cup {<<[name |-> "userId", value |-> "1"],
            [name |-> "sessionToken", value |-> v],
            [name |-> "theme", value |-> "dark"]>> : v \in tokens}

\* the request that carries a list of cookies (no Cookie header for none)
RequestOf(l) ==
    IF l = <<>> THEN RequestWithoutCookie
    ELSE RequestWithCookie(CookieHeader(l, <<";", " ">>, <<>>, <<>>))

\* the store and the record of the request, after a route has answered
Respond(op, args, sent, out) ==
    /\ out.tokenSeq <= MaxTokens
    /\ users' = out.users
    /\ sessions' = out.sessions
    /\ tokenSeq' = out.tokenSeq
    /\ ret' = [op |-> op, args |-> args, sent |-> sent, called |-> out.called,
               result |-> out.result, fault |-> out.fault, error |-> out.error,
               response |-> out.response]

PostRegister(Fs) ==
    \E body \in RegisterBodies, fault \in Fs :
        /\ Respond("POST /api/auth/register", [body |-> body], <<>>,
                   registerRoute(users, sessions, tokenSeq, now, body, "saltA", fault))
        /\ UNCHANGED <<now, loggedOut, procs, responses,
                      hashes, uuid, tokenLog, expenses>>

PostLogin(Fs) ==
    \E body \in LoginBodies, fault \in Fs :
        /\ Respond("POST /api/auth/login", [body |-> body], <<>>,
                   loginRoute(users, sessions, tokenSeq, now, body, fault))
        /\ UNCHANGED <<now, loggedOut, procs, responses,
                      hashes, uuid, tokenLog, expenses>>

PostLogout(Fs) ==
    \E l \in CookieLists(TokenInputs), fault \in Fs :
        LET out == logoutRoute(users, sessions, tokenSeq, RequestOf(l), fault)
        IN  /\ Respond("POST /api/auth/logout", [req |-> RequestOf(l)], l, out)
            /\ loggedOut' = IF out.called /\ out.result.success
                            THEN loggedOut \cup {l[i].value : i \in {j \in 1..Len(l) :
                                                     l[j].name = "sessionToken"}}
                            ELSE loggedOut
            /\ UNCHANGED <<now, procs, responses,
                      hashes, uuid, tokenLog, expenses>>

\* a request to a route wrapped by withOptionalAuthentication
RequestOptionalAuth ==
    \E l \in CookieLists(TokenInputs) :
        LET out == withOptionalAuthentication(users, sessions, tokenSeq, now,
                                              RequestOf(l), 0)
        IN  /\ ret' = [op |-> "withOptionalAuthentication", args |-> [req |-> RequestOf(l)],
                       sent |-> l, calls |-> out.calls, response |-> out.response]
            /\ UNCHANGED <<users, sessions, tokenSeq, now, loggedOut, procs, responses,
                      hashes, uuid, tokenLog, expenses>>

\* Requests to the routes and the passing of time; no storage call raises.
NextHttp ==
    \/ PostRegister({0})
    \/ PostLogin({0})
    \/ PostLogout({0})
    \/ RequestOptionalAuth
    \/ Tick

SpecHttp == Init /\ [][NextHttp]_vars

\* Requests to the routes, with storage calls that may raise, at one instant.
NextHttpFault ==
    \/ PostRegister(0..3)
    \/ PostLogin(0..3)
    \/ PostLogout(0..1)

SpecHttpFault == Init /\ [][NextHttpFault]_vars

----------------------------------------------------------------------------
(* generateSessionToken, character by character.  A text is a sequence of  *)
(* character codes, as the timestamps are.                                 *)

\* tokens generated in one run
MaxGenerated == 3
\* the character 'a'
CharA == 97
\* Bun's UUIDv7 counter has 12 bits
CounterModulus == 4096
\* the random bits of a UUID, as the generator may draw them (the draws of
\* the model have their two top bits clear)
RandomInputs == {0, 1}

\* one lower-case hexadecimal digit
HexChar(n) == IF n < 10 THEN CharZero + n ELSE CharA + (n - 10)

\* n in hexadecimal, `width` digits
RECURSIVE HexChars(_, _)
HexChars(n, width) ==
    IF width = 0 THEN <<>> ELSE HexChars(n \div 16, width - 1) \o <<HexChar(n % 16)>>

\* Number.prototype.toString(): decimal, as many digits as it takes
RECURSIVE DecimalChars(_)
DecimalChars(n) ==
    IF n < 10 THEN <<Digit(n)>> ELSE DecimalChars(n \div 10) \o <<Digit(n % 10)>>

\* (mutant: no counter in the UUID)
getCount_Constant(state, timestamp) ==
    [state |-> [timestamp |-> timestamp, counter |-> 0], count |-> 0]

\* Bun's UUIDv7 counter: it restarts when the timestamp differs from the
\* last one, and counts the UUIDs of one timestamp
getCount(state, timestamp) ==
    LET counter == IF state.timestamp # timestamp THEN 0 ELSE state.counter
    IN  [state |-> [timestamp |-> timestamp, counter |-> counter + 1],
         count |-> counter % CounterModulus]

\* Bun.randomUUIDv7().split("-").join(""): 48 bits of timestamp, version 7,
\* 12 bits of counter, variant 10, 62 random bits; 32 hexadecimal digits
randomUUIDv7(timestamp, count, random) ==
    HexChars(timestamp, 12) \o <<HexChar(7)>> \o HexChars(count, 3)
        \o <<HexChar(8)>> \o HexChars(random, 15)

\* Buffer.from(text).toString("hex"): two hexadecimal digits per character
BufferToHex(text) ==
    [i \in 1..(2 * Len(text)) |->
        IF i % 2 = 1 THEN HexChar(text[(i + 1) \div 2] \div 16)
                     ELSE HexChar(text[i \div 2] % 16)]

\* generateSessionToken: the text it returns when the clock reads
\* `timestamp` and the UUID generator draws `count` and `random`
sessionTokenText(timestamp, count, random) ==
    BufferToHex(randomUUIDv7(timestamp, count, random) \o DecimalChars(timestamp))

CallGenerateSessionToken ==
    /\ Len(tokenLog) < MaxGenerated
    /\ \E random \in RandomInputs :
          LET c == getCount(uuid, now)
              text == sessionTokenText(now, c.count, random)
          IN  /\ uuid' = c.state
              /\ tokenLog' = Append(tokenLog, text)
              /\ ret' = [op |-> "generateSessionToken", result |-> text,
                         random |-> random]
    /\ UNCHANGED <<users, sessions, tokenSeq, now, loggedOut, procs, responses,
                   hashes, expenses>>

\* Calls of generateSessionToken in one server process, and the passing of
\* time.
NextToken ==
    \/ CallGenerateSessionToken
    \/ Tick

SpecToken == Init /\ [][NextToken]_vars

----------------------------------------------------------------------------
(* hashPassword and verifyPassword on their own.  Each call of hashPassword *)
(* draws a salt no earlier call has drawn.                                  *)

\* calls of hashPassword in one run
MaxHashes == 3

HashPasswords == {"", "secret1", "Secret1"}

\* strings that are not hashes
MalformedHashes == {[text |-> "invalid_hash"], [text |-> ""]}

\* the hash as the string the caller gets: $2b$04$ salt digest
HashText(hash) == <<"$2b$", "04", "$", hash.salt>> \o hash.digest

CallHashPassword ==
    /\ Len(hashes) < MaxHashes
    /\ \E password \in HashPasswords :
          LET out == hashSync(password, "salt" \o ToString(Len(hashes) + 1))
          IN  IF out.threw
              THEN /\ ret' = [op |-> "hashPassword", args |-> [password |-> password],
                              raised |-> TRUE, error |-> out.error]
                   /\ UNCHANGED hashes
              ELSE /\ ret' = [op |-> "hashPassword", args |-> [password |-> password],
                              raised |-> FALSE, result |-> out.value]
                   /\ hashes' = Append(hashes, [password |-> password,
                                                hash |-> out.value])
    /\ UNCHANGED <<users, sessions, tokenSeq, now, loggedOut, procs, responses,
                   uuid, tokenLog, expenses>>

CallVerifyPassword ==
    /\ \E password \in HashPasswords,
          hash \in {hashes[i].hash : i \in DOMAIN hashes} \cup MalformedHashes :
          ret' = [op |-> "verifyPassword",
                  args |-> [password |-> password, hash |-> hash],
                  raised |-> FALSE, caught |-> verifySync(password, hash).threw,
                  result |-> verifyPassword(password, hash)]
    /\ UNCHANGED <<users, sessions, tokenSeq, now, loggedOut, procs, responses,
                   hashes, uuid, tokenLog, expenses>>

\* Calls of the hasher with any password and any hash.
NextHash ==
    \/ CallHashPassword
    \/ CallVerifyPassword

SpecHash == Init /\ [][NextHash]_vars

----------------------------------------------------------------------------
(* The expense routes of src/src/index.ts and the checks of the session    *)
(* they make.  The expense store is a set of records; a route says whether *)
(* it has read or written the store.                                       *)

\* expense records in the store at once
MaxExpenses == 2

MsgUnauthorized == <<"Unauthorized">>

\* const sessionToken = getSessionFromCookies(req);
\* !sessionToken || !verifySession(sessionToken).valid
Unauthorized(U, S, seq, t, req) ==
    LET sessionToken == getSessionFromCookies(req)
    IN  Falsy(sessionToken)
        \/ ~verifySession(U, S, seq, t, sessionToken.value, 0).result.valid

\* what an expense route leaves behind
Rejected(E) ==
    [expenses |-> E, touched |-> FALSE,
     response |-> ResponseJson(<<>>, [error |-> MsgUnauthorized], 401)[1]]
Refused(E, message) ==
    [expenses |-> E, touched |-> FALSE,
     response |-> ResponseJson(<<>>, [error |-> message], 400)[1]]
Served(E, status) ==
    [expenses |-> E, touched |-> TRUE,
     response |-> ResponseJson(<<>>, [data |-> E], status)[1]]

\* !description || !amount || !category || !date
MissingFields(body) ==
    \E k \in {"description", "amount", "category", "date"} : k \notin DOMAIN body

\* the expense store: a new record gets an id no record has
addExpense(E, body) ==
    LET id == CHOOSE n \in 1..(Cardinality(E) + 1) : \A e \in E : e.id # n
    IN  E \cup {[id |-> id, description |-> body.description, amount |-> body.amount,
                 category |-> body.category, date |-> body.date]}
deleteExpense(E, id) == {e \in E : e.id # id}
updateExpense(E, id, body) ==
    {IF e.id = id
     THEN [id |-> id, description |-> body.description, amount |-> body.amount,
           category |-> body.category, date |-> body.date]
     ELSE e : e \in E}

\* the records of an uploaded file that have every field, added one by one
RECURSIVE importExpenses(_, _)
importExpenses(E, jsonData) ==
    IF jsonData = <<>> THEN E
    ELSE importExpenses(IF MissingFields(Head(jsonData)) THEN E
                        ELSE addExpense(E, Head(jsonData)), Tail(jsonData))

\* /api/expenses GET, /api/stats GET, /api/categories GET: the session is
\* verified, then the store is read
expensesGET(U, S, seq, t, E, req) ==
    IF Unauthorized(U, S, seq, t, req) THEN Rejected(E) ELSE Served(E, 200)

\* /api/expenses POST: the session is verified, then the record is added
expensesPOST(U, S, seq, t, E, req, body) ==
    IF Unauthorized(U, S, seq, t, req) THEN Rejected(E)
    ELSE IF MissingFields(body) THEN Refused(E, <<"Missing", "required", "fields">>)
    ELSE Served(addExpense(E, body), 201)

\* /api/expenses/:id DELETE: req.params.id goes to deleteExpense
expenseDELETE(E, req, id) == Served(deleteExpense(E, id), 200)

\* /api/expenses/:id PUT: the body is checked, then the record is updated
expensePUT(E, req, id, body) ==
    IF MissingFields(body) THEN Refused(E, <<"Missing", "required", "fields">>)
    ELSE Served(updateExpense(E, id, body), 200)

\* /api/export GET, /api/export/csv GET, /api/export/summary GET: the
\* store is read and written to a file
exportGET(E, req) == Served(E, 200)

\* /api/import POST: the records of the uploaded file are added
importPOST(E, req, input) ==
    IF "file" \notin DOMAIN input THEN Refused(E, <<"No", "file", "provided">>)
    ELSE Served(importExpenses(E, input.file), 201)

\* what a request carries besides its cookies: the id of the path, the JSON
\* body, the uploaded file
ExpenseInputs ==
    LET Lunch == [description |-> "lunch", amount |-> 10, category |-> "food",
                  date |-> "2024-01-01"]
        Incomplete == [description |-> "lunch"]
    IN  {[id |-> 1, body |-> Lunch, file |-> <<Lunch, Incomplete>>],
         [id |-> 2, body |-> Incomplete]}

GuardedReads == {"GET /api/expenses", "GET /api/stats", "GET /api/categories"}
Exports == {"GET /api/export", "GET /api/export/csv", "GET /api/export/summary"}
ExpenseRoutes ==
    GuardedReads \cup Exports
    \cup {"POST /api/expenses", "DELETE /api/expenses/:id", "PUT /api/expenses/:id",
          "POST /api/import"}

\* routes: {...} of serve()
expenseRoute(route, U, S, seq, t, E, req, input) ==
    IF route \in GuardedReads THEN expensesGET(U, S, seq, t, E, req)
    ELSE IF route = "POST /api/expenses"
    THEN expensesPOST(U, S, seq, t, E, req, input.body)
    ELSE IF route = "DELETE /api/expenses/:id" THEN expenseDELETE(E, req, input.id)
    ELSE IF route = "PUT /api/expenses/:id"
    THEN expensePUT(E, req, input.id, input.body)
    ELSE IF route \in Exports THEN exportGET(E, req)
    ELSE importPOST(E, req, input)

RequestExpense ==
    \E route \in ExpenseRoutes, l \in CookieLists(IssuedTokens), input \in ExpenseInputs :
        LET out == expenseRoute(route, users, sessions, tokenSeq, now, expenses,
                                RequestOf(l), input)
        IN  /\ Cardinality(out.expenses) <= MaxExpenses
            /\ expenses' = out.expenses
            /\ ret' = [op |-> route, args |-> [req |-> RequestOf(l), input |-> input],
                       sent |-> l, touched |-> out.touched, response |-> out.response]
            /\ UNCHANGED <<users, sessions, tokenSeq, now, loggedOut, procs, responses,
                           hashes, uuid, tokenLog>>

\* Registration, login and logout over HTTP and requests to the expense
\* routes, at one instant; no storage call raises.
NextExpense ==
    \/ PostRegister({0})
    \/ PostLogin({0})
    \/ PostLogout({0})
    \/ RequestExpense

SpecExpense == Init /\ [][NextExpense]_vars

----------------------------------------------------------------------------
(* Claims *)

\* the session rows a token names
RowsOf(token) == {s \in sessions : s.session_token = token}

\* C1: verifySession(token) returns valid:true if and only if a session row
\* with that token exists and the instant stored in its expires_at is
\* strictly later than the current instant.
C1_ValidIffUnexpired ==
    ret.op = "verifySession" =>
        (ret.result.valid <=>
            \E s \in RowsOf(ret.args.sessionToken) : parseISO(s.expires_at) > now)

\* C1, seen when it fails: verifySession has just answered valid:true for a
\* session whose expiry instant lies in the past.
C1_ExpiredYetValid ==
    /\ ret.op = "verifySession"
    /\ ret.result.valid
    /\ \E s \in RowsOf(ret.args.sessionToken) : parseISO(s.expires_at) < now

\* C2: a verifySession(t) that immediately follows a successful
\* authenticateUser(email, password) returning token t and user id u answers
\* valid:true with userId u, and u is the id of the user row with that email.
C2_LoginThenVerify ==
    [][(/\ ret.op = "authenticateUser"
        /\ ret.result.success
        /\ ret'.op = "verifySession"
        /\ ret'.args.sessionToken = ret.result.sessionToken)
       => (/\ ret'.result = [valid |-> TRUE, userId |-> ret.result.userId]
           /\ \E u \in users : u.email = ret.args.email /\ u.id = ret.result.userId)]_vars

\* C2's case: the newest token has been verified at the instant it was
\* issued, after time had passed since the start.
C2_Witness ==
    /\ ret.op = "verifySession"
    /\ ret.result.valid
    /\ ret.args.sessionToken = generateSessionToken(tokenSeq - 1)
    /\ \E s \in RowsOf(ret.args.sessionToken) :
          s.expires_at = toISOString(now + SessionTicks)
    /\ now > 0

\* C3: a token for which logoutUser has returned success:true never again
\* verifies: verifySession answers exactly {valid:false}.
C3_LoggedOutStaysInvalid ==
    (ret.op = "verifySession" /\ ret.args.sessionToken \in loggedOut)
        => ret.result = [valid |-> FALSE]

\* C3's case: a token that was issued and logged out is verified after its
\* owner has logged in again.
C3_Witness ==
    /\ ret.op = "verifySession"
    /\ ret.args.sessionToken \in loggedOut \cap IssuedTokens
    /\ \E s \in sessions : \E u \in users :
          /\ u.id = s.user_id
          /\ s.session_token # ret.args.sessionToken

\* what getUserById answers for a user row
PublicUser(u) ==
    [id |-> u.id, username |-> u.username, email |-> u.email,
     created_at |-> u.created_at]

EmailTaken(email)       == \E u \in users : u.email = email
UsernameTaken(username) == \E u \in users : u.username = username

UsersUnique ==
    \A u, v \in users :
        (u.email = v.email \/ u.username = v.username \/ u.id = v.id) => u = v

\* every earlier user is still what getUserById returns for its id
EarlierUsersKept ==
    \A u \in users :
        getUserById(users', sessions', tokenSeq', u.id, 0).result = PublicUser(u)

\* C4, as stated: no two user rows share an email or a username; every
\* registerUser call whose email is already registered returns success:false
\* with message "Email already registered"; a call whose username is taken
\* (with a fresh email) returns success:false; in both cases no row is added
\* and the earlier users are still returned by getUserById.
C4_DuplicateRejected ==
    /\ []UsersUnique
    /\ [][ret'.op = "registerUser" =>
            /\ EmailTaken(ret'.args.email) =>
                  /\ ret'.result = [success |-> FALSE, message |-> MsgEmailTaken]
                  /\ users' = users /\ EarlierUsersKept
            /\ (UsernameTaken(ret'.args.username) /\ ~EmailTaken(ret'.args.email)) =>
                  /\ ~ret'.result.success
                  /\ users' = users /\ EarlierUsersKept]_vars

\* C4, amended: as above, but the message is "Email already registered" only
\* when username, email and password are non-empty and the password has at
\* least 6 characters; otherwise the call still fails, with the message of
\* the check it failed first.
C4_DuplicateRejectedWhenWellFormed ==
    /\ []UsersUnique
    /\ [][ret'.op = "registerUser" =>
            /\ EmailTaken(ret'.args.email) =>
                  /\ ~ret'.result.success
                  /\ (ret'.args.username # "" /\ Len(ret'.args.password) >= 6)
                        => ret'.result = [success |-> FALSE, message |-> MsgEmailTaken]
                  /\ users' = users /\ EarlierUsersKept
            /\ (UsernameTaken(ret'.args.username) /\ ~EmailTaken(ret'.args.email)) =>
                  /\ ~ret'.result.success
                  /\ users' = users /\ EarlierUsersKept]_vars

\* C4's case: a registration with a fresh email and a taken username has
\* been refused while another user exists.
C4_Witness ==
    /\ ret.op = "registerUser"
    /\ ~ret.result.success
    /\ ~EmailTaken(ret.args.email)
    /\ UsernameTaken(ret.args.username)
    /\ Len(ret.args.password) >= 6 /\ ret.args.email # ""

\* C6: registerUser answers with the message of the first check that fails,
\* in the order: all three inputs non-empty; password of at least 6
\* characters; email not yet registered.
C6_CheckOrder ==
    [][ret'.op = "registerUser" =>
         IF ret'.args.username = "" \/ ret'.args.email = "" \/ ret'.args.password = ""
         THEN ret'.result = [success |-> FALSE, message |-> MsgRequired]
         ELSE IF Len(ret'.args.password) < 6
         THEN ret'.result = [success |-> FALSE, message |-> MsgPasswordShort]
         ELSE IF EmailTaken(ret'.args.email)
         THEN ret'.result = [success |-> FALSE, message |-> MsgEmailTaken]
         ELSE ret'.result.message \notin {MsgRequired, MsgPasswordShort, MsgEmailTaken}]_vars

\* C6's case: an already registered email with a 5-character password has
\* been answered with the password-length message.
C6_Witness ==
    /\ ret.op = "registerUser"
    /\ EmailTaken(ret.args.email)
    /\ ret.args.username # ""
    /\ Len(ret.args.password) = 5
    /\ ret.result.message = MsgPasswordShort

\* C7: with non-empty username and email, a password of 1..5 characters is
\* refused with a message containing the word "password", and a password of
\* 6 or more characters is never refused for its length.
C7_PasswordLength ==
    (ret.op = "registerUser" /\ ret.args.username # "" /\ ret.args.email # "") =>
        /\ Len(ret.args.password) \in 1..5 =>
              ~ret.result.success /\ ContainsWord(ret.result.message, "password")
        /\ Len(ret.args.password) >= 6 =>
              (ret.result.success \/ ~ContainsWord(ret.result.message, "password"))

\* C7's case: a registration with a password of exactly 6 characters has
\* failed, for another reason than its length.
C7_Witness ==
    /\ ret.op = "registerUser"
    /\ ret.args.username # "" /\ ret.args.email # ""
    /\ Len(ret.args.password) = 6
    /\ ~ret.result.success

\* the stored hash of the user with this email is not a hash of the password
WrongPasswordFor(email, password) ==
    \E u \in users : u.email = email /\ u.password_hash.digest[2] # password

\* C8: authenticateUser returns the same value, {success:false,
\* message:"Invalid email or password"}, and changes nothing in the store,
\* when the email is not registered and when the password does not match.
C8_SameFailure ==
    [][(/\ ret'.op = "authenticateUser"
        /\ ~EmailTaken(ret'.args.email) \/ WrongPasswordFor(ret'.args.email, ret'.args.password))
       => (/\ ret'.result = [success |-> FALSE, message |-> MsgInvalidLogin]
           /\ UNCHANGED <<users, sessions, tokenSeq>>)]_vars

\* C8's case: a login with a wrong password for a registered email has been
\* refused while another email is still unregistered.
C8_Witness ==
    /\ ret.op = "authenticateUser"
    /\ WrongPasswordFor(ret.args.email, ret.args.password)
    /\ ~ret.result.success
    /\ \E e \in ValidEmails : ~EmailTaken(e)
    /\ sessions # {}

\* C9: a registerUser or authenticateUser call that returns success:false
\* leaves the users and sessions tables as they were, and its result has no
\* userId key and no sessionToken key.
C9_FailureChangesNothing ==
    [][(ret'.op \in {"registerUser", "authenticateUser"} /\ ~ret'.result.success)
       => (/\ users' = users
           /\ sessions' = sessions
           /\ DOMAIN ret'.result \cap {"userId", "sessionToken"} = {})]_vars

\* C9 where no storage call raises a storage error: the same statement for
\* the calls whose failure is a validation, lookup or constraint failure.
C9_FailureChangesNothingWithoutFault ==
    [][(/\ ret'.op \in {"registerUser", "authenticateUser"}
        /\ ~ret'.result.success
        /\ ~ret'.fault)
       => (/\ users' = users
           /\ sessions' = sessions
           /\ DOMAIN ret'.result \cap {"userId", "sessionToken"} = {})]_vars

\* C10: no entry point raises, whatever its input and whichever of its
\* storage calls raises; on a storage error registerUser returns
\* success:false with a message starting "Registration failed: ",
\* verifySession returns valid:false and getUserById returns null.
C10_NeverRaises ==
    ret.op \in {"registerUser", "authenticateUser", "verifySession",
                "getUserById", "logoutUser"} =>
        /\ ~ret.raised
        /\ (ret.op = "registerUser" /\ ret.fault) =>
              /\ ~ret.result.success
              /\ StartsWith(ret.result.message, <<"Registration", "failed:">>)
        /\ (ret.op = "authenticateUser" /\ ret.fault) => ~ret.result.success
        /\ (ret.op = "verifySession" /\ ret.fault) => ret.result = [valid |-> FALSE]
        /\ (ret.op = "getUserById" /\ ret.fault) => ret.result = NULL
        /\ (ret.op = "logoutUser") => DOMAIN ret.result = {"success"}

\* C10's case: the storage raised during a registration, after the checks.
C10_Witness ==
    /\ ret.op = "registerUser"
    /\ ret.fault
    /\ ~ret.raised
    /\ users # {}

\* two registerUser calls with the same email that both passed the email
\* check (both found no row) and have both answered
RacedPair(p, q) ==
    /\ p # q
    /\ procs[p].pc = "done" /\ procs[q].pc = "done"
    /\ procs[p].sawFree /\ procs[q].sawFree
    /\ procs[p].call.email = procs[q].call.email

\* neither call's username is held by a user with another email: each call
\* would have succeeded alone
UsernamesFree(p, q) ==
    \A r \in {p, q} : \A u \in users :
        u.username = procs[r].call.username => u.email = procs[r].call.email

\* C5: when two registerUser calls with the same email both pass the email
\* check before either inserts, at most one returns success:true, the calls
\* return a result instead of throwing, and afterwards exactly one user row
\* has that email (one of the two calls won) when the inputs of both are
\* valid, that is, each call would have succeeded alone.
C5_RaceOneWinner ==
    \A p, q \in Procs :
        RacedPair(p, q) =>
            /\ ~(procs[p].result.success /\ procs[q].result.success)
            /\ ~procs[p].raised /\ ~procs[q].raised
            /\ Cardinality(SelectUserByEmail(users, procs[p].call.email)) <= 1
            /\ UsernamesFree(p, q) =>
                  /\ Cardinality(SelectUserByEmail(users, procs[p].call.email)) = 1
                  /\ procs[p].result.success \/ procs[q].result.success

\* C5's case: both calls passed the check, one has registered the email and
\* the other has been refused by the constraint on users.email.
C5_Witness ==
    \E p, q \in Procs :
        /\ RacedPair(p, q) /\ UsernamesFree(p, q)
        /\ procs[p].result.success
        /\ procs[q].result = [success |-> FALSE,
                              message |-> MsgRegFailed \o ErrUniqueEmail]

\* C11, as stated: logoutUser returns {success:true} for every token and in
\* every state of the store.
C11_LogoutAlwaysTrue ==
    ret.op = "logoutUser" => ret.result = [success |-> TRUE]

\* C11, amended: logoutUser returns {success:true} for every token and every
\* content of the tables, whether or not a session row matches, except when
\* the storage raises on the DELETE: then it returns {success:false}.
C11_LogoutTrueUnlessStorageRaises ==
    ret.op = "logoutUser" => ret.result = [success |-> ~ret.fault]

\* C11's case: a token that names no session has been logged out while
\* another session exists.
C11_Witness ==
    /\ ret.op = "logoutUser"
    /\ ~ret.fault
    /\ ret.args.sessionToken \notin IssuedTokens
    /\ sessions # {}
    /\ ret.result.success

\* C12: logoutUser with a token that matches no session row (unknown, empty
\* or already logged out) returns success:true and leaves users and sessions
\* unchanged; a second logoutUser(t) right after a first one leaves the store
\* as the first one left it.
C12_LogoutIdempotent ==
    [][ret'.op = "logoutUser" =>
         /\ RowsOf(ret'.args.sessionToken) = {} =>
               /\ ret'.result = [success |-> TRUE]
               /\ users' = users /\ sessions' = sessions
         /\ (ret.op = "logoutUser" /\ ret.args = ret'.args) =>
               /\ users' = users /\ sessions' = sessions]_vars

\* C12's case: an issued token that was logged out (its row is gone) has been
\* passed to logoutUser, which answered success:true, while
\* another session is still there.
C12_Witness ==
    /\ ret.op = "logoutUser"
    /\ ret.args.sessionToken \in IssuedTokens \cap loggedOut
    /\ sessions # {}
    /\ ret.result.success

\* the answer verifySession gives for a token in a given sessions table
VerifyIn(S, token) == verifySession(users, S, tokenSeq, now, token, 0).result

\* C13: a successful authenticateUser adds exactly one session row, with a
\* token no row had, and leaves every other token's answer from
\* verifySession as it was (so two logins of one user give two tokens valid
\* at once); logoutUser removes the rows of its token only, and every other
\* token still gets the same answer, with the same userId.
C13_SessionsIndependent ==
    [][/\ (ret'.op = "authenticateUser" /\ ret'.result.success) =>
            /\ \E s \in sessions' \ sessions :
                  /\ sessions' = sessions \cup {s}
                  /\ s.session_token = ret'.result.sessionToken
                  /\ s.user_id = ret'.result.userId
                  /\ RowsOf(s.session_token) = {}
            /\ Cardinality(sessions') = Cardinality(sessions) + 1
            /\ \A t \in IssuedTokens : VerifyIn(sessions', t) = VerifyIn(sessions, t)
            /\ VerifyIn(sessions', ret'.result.sessionToken)
                  = [valid |-> TRUE, userId |-> ret'.result.userId]
       /\ ret'.op = "logoutUser" =>
            /\ sessions' = sessions \ RowsOf(ret'.args.sessionToken)
            /\ \A t \in IssuedTokens \ {ret'.args.sessionToken} :
                  VerifyIn(sessions', t) = VerifyIn(sessions, t)]_vars

\* C13's case: the only user has logged in twice, the second token has been
\* logged out, and the session of the first token is still valid.
C13_Witness ==
    /\ ret.op = "logoutUser"
    /\ Cardinality(users) = 1
    /\ tokenSeq = 2
    /\ ret.args.sessionToken = generateSessionToken(1)
    /\ RowsOf(generateSessionToken(1)) = {}
    /\ VerifyIn(sessions, generateSessionToken(0)).valid

\* C15: getUserById returns, for the id of a user row, a record with exactly
\* the fields id, username, email and created_at, holding that row's values,
\* and returns null without raising for an id no row has, 0 and negative ids
\* included.
C15_PublicFieldsOnly ==
    ret.op = "getUserById" =>
        /\ ~ret.raised
        /\ \A u \in users : u.id = ret.args.userId =>
              /\ DOMAIN ret.result = {"id", "username", "email", "created_at"}
              /\ ret.result = PublicUser(u)
        /\ (\A u \in users : u.id # ret.args.userId) => ret.result = NULL

\* C15's case: the second registered user has been fetched by id.
C15_Witness ==
    /\ ret.op = "getUserById"
    /\ ret.args.userId = 2
    /\ ret.result # NULL
    /\ Cardinality(users) = 2

\* C19: getSessionFromCookies returns the value of the cookie named
\* sessionToken wherever it stands among the cookies of the header (first,
\* middle or last, with stray semicolons and extra whitespace), and null when
\* the request has no Cookie header, when no cookie is named sessionToken,
\* and when the value of sessionToken is empty.
C19_ExtractsSessionToken ==
    ret.op = "getSessionFromCookies" =>
        IF \E i \in 1..Len(ret.sent) :
               ret.sent[i].name = "sessionToken" /\ ret.sent[i].value # ""
        THEN \E i \in 1..Len(ret.sent) :
               /\ ret.sent[i].name = "sessionToken"
               /\ ret.result = Str(ret.sent[i].value)
        ELSE ret.result = NULL

\* C19's case: the session cookie stood last of three, after stray
\* semicolons, and its value has been returned.
C19_Witness ==
    /\ ret.op = "getSessionFromCookies"
    /\ Len(ret.sent) = 3
    /\ ret.sent[3].name = "sessionToken"
    /\ ret.args.req.headers[1][2][1] = ";"
    /\ ret.result = Str("abc")

\* the places of the Set-Cookie entries among the headers of a response
SetCookieEntries(response) ==
    {i \in 1..Len(response.headers) : response.headers[i][1] = "set-cookie"}

\* the pieces of a Set-Cookie value after its name=value pair
AttributePieces(setCookie) ==
    LET pieces == SplitOn(setCookie, ";")
    IN  {Trim(pieces[k]) : k \in 2..Len(pieces)}

\* the attributes written as a bare word, and the values an attribute is given
Flags(setCookie) == {Join(a) : a \in AttributePieces(setCookie)}
AttributeValues(setCookie, name) ==
    {p[1].value : p \in {q \in {ParsePair(a) : a \in AttributePieces(setCookie)} :
                            q # <<>> /\ q[1].name = name}}

\* a Set-Cookie value for sessionToken with this value and Max-Age, and the
\* attributes Path=/, HttpOnly, Secure and SameSite=Strict
IsSessionCookie(setCookie, value, maxAge) ==
    /\ ParsePair(Head(SplitOn(setCookie, ";")))
          = <<[name |-> "sessionToken", value |-> value]>>
    /\ {"HttpOnly", "Secure"} \subseteq Flags(setCookie)
    /\ AttributeValues(setCookie, "Path") = {"/"}
    /\ AttributeValues(setCookie, "SameSite") = {"Strict"}
    /\ AttributeValues(setCookie, "Max-Age") = {ToString(maxAge)}

\* C17: the response setSessionCookie returns has a single Set-Cookie
\* header: sessionToken with the token given as its value, Path=/, HttpOnly,
\* Secure, SameSite=Strict and Max-Age = expiryDays * 86400 (604800 when
\* expiryDays is omitted); the response clearSessionCookie returns has a
\* single Set-Cookie header: sessionToken with an empty value, the same
\* attributes and Max-Age=0, also when the response given carried the cookie.
C17_CookieAttributes ==
    /\ ret.op = "setSessionCookie" =>
          LET response == responses[ret.result]
          IN  /\ Cardinality(SetCookieEntries(response)) = 1
              /\ \A i \in SetCookieEntries(response) :
                    IsSessionCookie(response.headers[i][2], ret.args.sessionToken,
                                    IF "expiryDays" \in DOMAIN ret.args
                                    THEN ret.args.expiryDays * 86400
                                    ELSE 604800)
    /\ ret.op = "clearSessionCookie" =>
          LET response == responses[ret.result]
          IN  /\ Cardinality(SetCookieEntries(response)) = 1
              /\ \A i \in SetCookieEntries(response) :
                    IsSessionCookie(response.headers[i][2], "", 0)

\* C17's case: a response that carried the session cookie has been cleared.
C17_Witness ==
    /\ ret.op = "clearSessionCookie"
    /\ \E i \in SetCookieEntries(responses[ret.args.response]) :
          IsSessionCookie(responses[ret.args.response].headers[i][2], "tok123", 604800)

\* the headers of a response other than Set-Cookie
OtherHeaders(response) ==
    LET other(e) == e[1] # "set-cookie"
    IN  SelectSeq(response.headers, other)

\* C18: setSessionCookie and clearSessionCookie leave the response they are
\* given (and every other one) as it was, so a Set-Cookie header it did not
\* have stays absent; they return a new response whose status, body and
\* headers other than Set-Cookie are those of the response given.
C18_OriginalKept ==
    [][ret'.op \in {"setSessionCookie", "clearSessionCookie"} =>
         /\ \A r \in 1..Len(responses) : responses'[r] = responses[r]
         /\ SetCookieEntries(responses[ret'.args.response]) = {}
               => SetCookieEntries(responses'[ret'.args.response]) = {}
         /\ ret'.result \notin 1..Len(responses)
         /\ responses'[ret'.result].status = responses[ret'.args.response].status
         /\ responses'[ret'.result].body = responses[ret'.args.response].body
         /\ OtherHeaders(responses'[ret'.result])
               = OtherHeaders(responses[ret'.args.response])]_vars

\* C18's case: a response with status 401 and a custom header, without
\* Set-Cookie, has been given the session cookie.
C18_Witness ==
    /\ ret.op = "setSessionCookie"
    /\ responses[ret.args.response].status = 401
    /\ SetCookieEntries(responses[ret.args.response]) = {}
    /\ Len(OtherHeaders(responses[ret.result])) = 2

\* the text `part` stands somewhere in the text `text`
Within(part, text) ==
    \E i \in 1..(Len(text) - Len(part) + 1) : SubSeq(text, i, i + Len(part) - 1) = part

\* C14: when the storage raises during a registration or a login, the
\* message of the result, and the body of the response the route builds from
\* it, hold no text of the storage error.
C14_NoStorageText ==
    (/\ ret.op \in {"POST /api/auth/register", "POST /api/auth/login"}
     /\ ret.called
     /\ ret.error # <<>>)
    => /\ ~Within(ret.error, ret.result.message)
       /\ ~Within(ret.error, ret.response.body.error)

\* C14, seen when it fails: the body of a 400 answer to a registration holds
\* the text of the constraint the INSERT violated.
C14_StorageTextInBody ==
    /\ ret.op = "POST /api/auth/register"
    /\ ret.response.status = 400
    /\ Within(ErrUniqueUsername, ret.response.body.error)

\* C16: after a successful login the response carries the token in an
\* HttpOnly Set-Cookie header and nowhere else: its body has no session
\* token.
C16_TokenOnlyInCookie ==
    (ret.op = "POST /api/auth/login" /\ ret.called /\ ret.result.success)
    => /\ \E i \in SetCookieEntries(ret.response) :
             IsSessionCookie(ret.response.headers[i][2], ret.result.sessionToken,
                             604800)
       /\ "sessionToken" \notin DOMAIN ret.response.body

\* C16, seen when it fails: the JSON body of the answer to a login holds the
\* token of the session just created.
C16_TokenInBody ==
    /\ ret.op = "POST /api/auth/login"
    /\ ret.response.status = 200
    /\ ret.response.body.sessionToken = generateSessionToken(tokenSeq - 1)
    /\ RowsOf(ret.response.body.sessionToken) # {}

\* the values of the session cookies among the cookies sent
SentTokens(l) == {l[i].value : i \in {j \in 1..Len(l) : l[j].name = "sessionToken"}}

C20_WitnessExpired ==
    /\ ret.op = "withOptionalAuthentication"
    /\ \E v \in SentTokens(ret.sent) : RowsOf(v) # {} /\ v \notin loggedOut
    /\ DOMAIN ret.calls[1] = {"req"}

\* C21: the login route sets a sessionToken cookie if and only if
\* authenticateUser succeeded, and then its value is the token of the
\* session row just added; when authenticateUser fails the route answers 401
\* with the returned message and no cookie; the register route answers 400
\* with the returned message when registerUser fails, and never sets a cookie.
C21_CookieIffLoggedIn ==
    [][/\ ret'.op = "POST /api/auth/login" =>
            /\ SetCookieEntries(ret'.response) # {}
                  <=> (ret'.called /\ ret'.result.success)
            /\ (ret'.called /\ ret'.result.success) =>
                  /\ Cardinality(SetCookieEntries(ret'.response)) = 1
                  /\ \A i \in SetCookieEntries(ret'.response) :
                        IsSessionCookie(ret'.response.headers[i][2],
                                        ret'.result.sessionToken, 604800)
                  /\ \E s \in sessions' \ sessions :
                        s.session_token = ret'.result.sessionToken
            /\ (ret'.called /\ ~ret'.result.success) =>
                  /\ ret'.response.status = 401
                  /\ ret'.response.body = [error |-> ret'.result.message]
       /\ ret'.op = "POST /api/auth/register" =>
            /\ SetCookieEntries(ret'.response) = {}
            /\ (ret'.called /\ ~ret'.result.success) =>
                  /\ ret'.response.status = 400
                  /\ ret'.response.body = [error |-> ret'.result.message]]_vars

\* C21's case: a login for a registered email with a wrong password has
\* been answered 401, after an earlier login had been given its cookie.
C21_Witness ==
    /\ ret.op = "POST /api/auth/login"
    /\ ret.called /\ ~ret.result.success /\ ~ret.fault
    /\ ret.response.status = 401
    /\ users # {} /\ sessions # {}

\* C22: the logout route always answers with a response that clears the
\* sessionToken cookie (empty value, Max-Age=0); when the request carried a
\* non-empty token, no session row has that token once the response is
\* returned, and a request replaying the cookie is handled as anonymous.
C22_LogoutRevokes ==
    ret.op = "POST /api/auth/logout" =>
        /\ Cardinality(SetCookieEntries(ret.response)) = 1
        /\ \A i \in SetCookieEntries(ret.response) :
              IsSessionCookie(ret.response.headers[i][2], "", 0)
        /\ \A v \in SentTokens(ret.sent) \ {""} :
              /\ RowsOf(v) = {}
              /\ DOMAIN withOptionalAuthentication(users, sessions, tokenSeq, now,
                                                   ret.args.req, 0).calls[1] = {"req"}

\* C22's case: a logout request carrying the token of a session that a
\* login had created has been answered, and the session row is gone.
C22_Witness ==
    /\ ret.op = "POST /api/auth/logout"
    /\ ret.called
    /\ \E v \in SentTokens(ret.sent) \cap IssuedTokens : RowsOf(v) = {}

\* C25: a session row is created with expires_at equal to the instant of the
\* login plus exactly 7 days, and no operation changes the expires_at, the
\* user_id or the token of a row that exists: a row is the same in the next
\* state, or it is gone because logoutUser was called with its token.
C25_ExpirySetOnce ==
    [][/\ \A s \in sessions' \ sessions :
             /\ ret'.op = "authenticateUser"
             /\ parseISO(s.expires_at) = now + 7 * TicksPerDay
             /\ \A old \in sessions : old.session_token # s.session_token
       /\ \A s \in sessions \ sessions' :
             ret'.op = "logoutUser" /\ ret'.args.sessionToken = s.session_token]_vars

\* C25's case: a user has logged in twice, on different days, and both
\* sessions are in the table with their own expiry instants.
C25_Witness ==
    /\ ret.op = "authenticateUser" /\ ret.result.success
    /\ \E s1 \in sessions, s2 \in sessions :
          /\ s1.user_id = s2.user_id
          /\ parseISO(s1.expires_at) < parseISO(s2.expires_at)
          /\ parseISO(s2.expires_at) = now + 7 * TicksPerDay

\* C26: verifySession and getUserById leave the users and sessions tables as
\* they were; a session row leaves the table only by logoutUser called with
\* its token, so an expired row stays after a lookup has found it expired.
C26_LookupsReadOnly ==
    [][/\ ret'.op \in {"verifySession", "getUserById"} =>
             users' = users /\ sessions' = sessions
       /\ \A s \in sessions :
             s \in sessions'
             \/ (ret'.op = "logoutUser" /\ ret'.args.sessionToken = s.session_token)]_vars

\* C26's case: verifySession has answered valid:false for a token whose row,
\* expired days ago, is still in the table.
C26_Witness ==
    /\ ret.op = "verifySession" /\ ~ret.result.valid
    /\ \E s \in RowsOf(ret.args.sessionToken) :
          parseISO(s.expires_at) + TicksPerDay <= now

\* C27: the clock never goes back, and a token that was issued and is
\* answered valid:false by verifySession (expired or logged out) is answered
\* valid:false in every later state.
C27_ValidityMonotone ==
    [][/\ now' >= now
       /\ \A t \in IssuedTokens :
             ~VerifyIn(sessions, t).valid => ~VerifyIn(sessions, t)'.valid]_vars

\* C27's case: a token that was issued has been logged out, time has
\* passed, and verifySession has answered valid:false for it.
C27_Witness ==
    /\ ret.op = "verifySession" /\ ~ret.result.valid
    /\ ret.args.sessionToken \in IssuedTokens \cap loggedOut
    /\ now > 0

\* C28: in every reachable state each session row's user_id is the id of a
\* user row, and every token verifySession accepts resolves to a user through
\* getUserById; no step deletes or changes a user row, and a new user row
\* gets an id no user row has.
C28_SessionsHaveUsers ==
    /\ [](/\ \A s \in sessions : \E u \in users : u.id = s.user_id
          /\ \A t \in TokenInputs :
                VerifyIn(sessions, t).valid =>
                   getUserById(users, sessions, tokenSeq,
                               VerifyIn(sessions, t).userId, 0).result # NULL)
    /\ [][/\ users \subseteq users'
          /\ \A u \in users' \ users : \A v \in users : v.id # u.id]_vars

\* C28's case: two users are registered, each has a session, and
\* getUserById has just returned the owner of one of them.
C28_Witness ==
    /\ ret.op = "getUserById" /\ ret.result # NULL
    /\ Cardinality(users) = 2
    /\ \E s1 \in sessions, s2 \in sessions :
          s1.user_id # s2.user_id /\ s1.user_id = ret.args.userId

\* C29: in every reachable state no two session rows have the same token;
\* when generateSessionToken returns a token that a session row already has,
\* authenticateUser returns success:false without a sessionToken, the sessions
\* table stays as it was (the row keeps its user_id and expires_at), and
\* verifySession answers for every token as before, with the same user.
C29_TokenCollisionRejected ==
    /\ [](\A s1 \in sessions, s2 \in sessions :
             s1.session_token = s2.session_token => s1 = s2)
    /\ [][(/\ ret'.op = "authenticateUser"
           /\ \E t \in ret'.generated : RowsOf(t) # {}) =>
                /\ ~ret'.result.success
                /\ "sessionToken" \notin DOMAIN ret'.result
                /\ sessions' = sessions
                /\ \A t \in TokenInputs :
                      VerifyIn(sessions, t) = VerifyIn(sessions, t)']_vars

\* C29's case: a login with the right password of one user was given, by the
\* generator, the token of another user's session; it has failed and the
\* token still verifies as its owner.
C29_Witness ==
    /\ ret.op = "authenticateUser" /\ ~ret.result.success
    /\ \E t \in ret.generated, s \in sessions, u \in users :
          /\ s.session_token = t
          /\ u.email = ret.args.email /\ u.id # s.user_id
          /\ verifyPassword(ret.args.password, u.password_hash)
          /\ VerifyIn(sessions, t).valid
          /\ VerifyIn(sessions, t).userId = s.user_id

\* C24: every token generateSessionToken has returned is a text of at least
\* 32 characters, each of them one of 0-9 and a-f, and no two calls have
\* returned the same token.
C24_TokensHexAndDistinct ==
    /\ \A i \in DOMAIN tokenLog :
          /\ Len(tokenLog[i]) >= 32
          /\ \A k \in DOMAIN tokenLog[i] :
                tokenLog[i][k] \in (CharZero..(CharZero + 9)) \cup (CharA..(CharA + 5))
    /\ \A i \in DOMAIN tokenLog, j \in DOMAIN tokenLog :
          i # j => tokenLog[i] # tokenLog[j]
    /\ ret.op = "generateSessionToken" => ret.result = tokenLog[Len(tokenLog)]

\* C24's case: three tokens have been generated within one reading of the
\* clock and with the same random draw.
C24_Witness ==
    /\ ret.op = "generateSessionToken"
    /\ Len(tokenLog) = 3
    /\ uuid.counter = 3
    /\ \A i \in DOMAIN tokenLog :
          tokenLog[i] = sessionTokenText(now, i - 1, ret.random)

C30_ExpensesNeedSession ==
    (/\ ret.op \in ExpenseRoutes
     /\ ~\E v \in SentTokens(ret.sent), s \in sessions :
            s.session_token = v /\ parseISO(s.expires_at) > now) =>
        /\ ret.response.status = 401
        /\ ret.response.body = [error |-> MsgUnauthorized]
        /\ ~ret.touched

\* C30, seen when it fails: a POST /api/import without any cookie has been
\* answered 201 and the store has a record, while no user is registered.
C30_ImportedWithoutSession ==
    /\ ret.op = "POST /api/import"
    /\ ret.sent = <<>>
    /\ ret.touched /\ ret.response.status = 201
    /\ expenses # {} /\ users = {}

====
